---- MODULE Spec2Model ----
(***************************************************************************)
(* Model of USBHID_ns::GetlInstalledDevicesInfo (usbhid.cpp), release      *)
(* build (NDEBUG: assert() expands to nothing).                            *)
(*                                                                         *)
(* The operating system is an oracle: each OS call draws its outcome when  *)
(* it is made.  What the OS answered is kept on the OS side (osHandles, q, *)
(* resolveFailed) so that the properties can speak about "a device whose   *)
(* query failed".                                                          *)
(* A device is identified by its device path; the manufacturer string,     *)
(* the attributes and the capabilities the OS reports are functions of     *)
(* the path, the success of each query is per call.                        *)
(***************************************************************************)
EXTENDS Integers, Sequences, FiniteSets, TLC

\* ------------------------------------------------------------- bounds ---
MaxDevices == 3      \* device-interface entries the OS enumerates at most
MaxHandles == 3      \* handle values the OS can hand out
NumPaths   == 2      \* distinct device paths

\* --------------------------------------------------- program constants ---
MAX_USB_DEVICE_STR_LEN == 126
INVALID_HANDLE_VALUE == -1
npos == -1

Handles == 1..MaxHandles
Paths   == 1..NumPaths

VARIABLES
  pc,                     \* position in GetlInstalledDevicesInfo
  deviceInfo,             \* HDEVINFO returned by SetupDiGetClassDevs
  memberIndex,            \* DWORD memberIndex of the enumeration loop
  devicePaths,            \* std::vector<std::wstring>
  openDeviceHandles,      \* std::map<HANDLE, std::wstring>
  closeHandlesGuard,      \* TRUE once the guard object is constructed
  hndManufacturerMap,     \* std::map<HANDLE, std::wstring>
  attribs,                \* HIDD_ATTRIBUTES shared by the attributes loop
  handleAttributesMap,    \* std::map<HANDLE, hidAttributes>
  handlePreparsedDataMap, \* std::map<HANDLE, parsedDataPtr>
  devPathCapsMap,         \* std::map<HANDLE, HIDP_CAPS>
  installedDeviceInfoList,\* the list under construction
  it,                     \* loop cursor: vector index or last map key visited
  exception,              \* exception thrown inside the try block, "none" if none was
  result,                 \* value handed to the caller (meaningful at pc = "done")
  \* ---- operating system side ----
  devInfoSetLive,         \* device-information set allocated and not destroyed
  closeCount,             \* CloseHandle calls per handle value
  preparsedLive,          \* preparsed-data blobs allocated and not freed
  osHandles,              \* handle table: handle value -> device the handle is open on
  \* ---- what the OS answered ----
  resolveFailed,          \* entries whose path SetupDiGetDeviceInterfaceDetail refused
  pathBadAlloc,           \* entries for which the allocation in GetDevicePath failed
  q,                      \* per handle: outcome of each query ("?" = not asked)
  raisedAt                \* stage in which an exception was thrown, or "none"

vars == <<pc, deviceInfo, memberIndex, devicePaths, openDeviceHandles,
          closeHandlesGuard, hndManufacturerMap, attribs, handleAttributesMap,
          handlePreparsedDataMap, devPathCapsMap, installedDeviceInfoList, it,
          exception, result, devInfoSetLive, closeCount, preparsedLive,
          resolveFailed, pathBadAlloc, osHandles, q, raisedAt>>

\* ------------------------------------------------ what the OS reports ---
\* Strings are sequences of non-zero character codes.
OsDevicePath(p)   == <<40 + p>>
OsManufacturer(p) == <<60 + p, 33>>
OsAttributes(p)   == [VendorID |-> 100 + p, ProductID |-> 200 + p, VersionNumber |-> 300 + p]
OsCaps(p)         == [UsagePage |-> p, InputReportByteLength |-> 8]
OsPreparsed(p)    == [blobOf |-> p]

\* the device a path string names
OsDeviceOfPath(devPath) == devPath[1] - 40

\* ------------------------------------------------- std::map helpers ---
EmptyMap == <<>>

\* std::map::emplace: inserts only when the key is absent
Emplace(m, k, v) == IF k \in DOMAIN m THEN m ELSE (k :> v) @@ m

\* keys not yet visited by an in-order iteration whose last visited key is cur
Remaining(m, cur) == {k \in DOMAIN m : k > cur}

\* the key the iterator points at
NextKey(m, cur) == CHOOSE k \in Remaining(m, cur) : \A j \in Remaining(m, cur) : k <= j

\* ------------------------------------------------ std::wstring helpers ---
\* std::wstring str(n, L'\0')
NulString(n) == [k \in 1..n |-> 0]

\* the OS copies s and its terminator into the caller's buffer
WriteString(buf, s) == [k \in 1..Len(buf) |-> IF k <= Len(s) THEN s[k] ELSE IF k = Len(s) + 1 THEN 0 ELSE buf[k]]

\* str.find_first_of(L'\0'): 0-based index of the first NUL, npos when absent
find_first_of(str) ==
  IF \E k \in 1..Len(str) : str[k] = 0
  THEN (CHOOSE k \in 1..Len(str) : str[k] = 0 /\ \A j \in 1..(k - 1) : str[j] # 0) - 1
  ELSE npos

\* str.erase(pos): keeps the first pos characters (pos <= size)
erase(str, pos) == SubSeq(str, 1, pos)

\* ------------------------------------------------------- GetDevicePath ---
\* outcome "ok": second SetupDiGetDeviceInterfaceDetail succeeds;
\* "fail": it returns FALSE; "oom": new BYTE[requiredSize] throws and the
\* function's own catch(...) swallows the exception.
GetDevicePath(p, outcome) ==
  IF outcome = "ok" THEN OsDevicePath(p) ELSE <<>>

\* ------------------------------------------------------------ Init ---
NotAsked == [manuf |-> "?", attr |-> "?", prep |-> "?", caps |-> "?"]

Init ==
  /\ pc = "start"
  /\ deviceInfo = "none"
  /\ memberIndex = 0
  /\ devicePaths = <<>>
  /\ openDeviceHandles = EmptyMap
  /\ closeHandlesGuard = FALSE
  /\ hndManufacturerMap = EmptyMap
  /\ attribs = [VendorID |-> 0, ProductID |-> 0, VersionNumber |-> 0]
  /\ handleAttributesMap = EmptyMap
  /\ handlePreparsedDataMap = EmptyMap
  /\ devPathCapsMap = EmptyMap
  /\ installedDeviceInfoList = <<>>
  /\ it = 0
  /\ exception = "none"
  /\ result = <<>>
  /\ devInfoSetLive = FALSE
  /\ closeCount = [h \in Handles |-> 0]
  /\ preparsedLive = {}
  /\ osHandles = EmptyMap
  /\ resolveFailed = 0
  /\ pathBadAlloc = 0
  /\ q = [h \in Handles |-> NotAsked]
  /\ raisedAt = "none"

\* ----------------------------------------------------- scope exit ---
\* Destructors that run when the try block is left, by return or by
\* unwinding: ~CloseHandlesGuard closes every key of openDeviceHandles,
\* the unique_ptrs of the preparsed-data map free their blobs.
ScopeExit ==
  /\ closeCount' = [h \in Handles |->
                      IF closeHandlesGuard /\ h \in DOMAIN openDeviceHandles
                      THEN closeCount[h] + 1 ELSE closeCount[h]]
  /\ preparsedLive' = preparsedLive \ DOMAIN handlePreparsedDataMap

\* variant: no handler, the exception leaves the noexcept function
CatchAll_Propagate(what) ==
  /\ ScopeExit
  /\ exception' = what
  /\ raisedAt' = pc
  /\ result' = <<>>
  /\ pc' = "terminated"

\* variant: the handler returns the list built so far
CatchAll_Partial(what) ==
  /\ ScopeExit
  /\ exception' = what
  /\ raisedAt' = pc
  /\ result' = installedDeviceInfoList'
  /\ pc' = "done"

\* an exception is thrown inside the try block: the stack is unwound,
\* catch(...) swallows it, control falls through to return {}
CatchAll(what) ==
  /\ ScopeExit
  /\ exception' = what
  /\ raisedAt' = pc
  /\ result' = <<>>
  /\ pc' = "done"

\* --------------------------------------------------------- discovery ---
\* an invalid set skips the if block: return {}
SetupDiGetClassDevs ==
  /\ pc = "start"
  /\ \E valid \in BOOLEAN :
       IF valid
       THEN /\ deviceInfo' = "valid"
            /\ devInfoSetLive' = TRUE
            /\ pc' = "enum"
            /\ UNCHANGED result
       ELSE /\ deviceInfo' = "INVALID_HANDLE_VALUE"
            /\ devInfoSetLive' = FALSE
            /\ result' = <<>>
            /\ pc' = "done"
  /\ UNCHANGED <<memberIndex, devicePaths, openDeviceHandles, closeHandlesGuard,
                 hndManufacturerMap, attribs, handleAttributesMap,
                 handlePreparsedDataMap, devPathCapsMap, installedDeviceInfoList,
                 it, exception, closeCount, preparsedLive, resolveFailed, pathBadAlloc,
                 osHandles, q, raisedAt>>

\* device paths are opaque names: an entry reports a path reported before
\* or the next unused one
SeenPaths == {OsDeviceOfPath(devicePaths[i]) : i \in DOMAIN devicePaths}

EntryPaths == {p \in Paths : \A r \in 1..(p - 1) : r \in SeenPaths}

\* one iteration of the while loop: the OS reports one more entry
EnumEntry(outcomes) ==
  /\ pc = "enum"
  /\ memberIndex < MaxDevices
  /\ \E o \in outcomes : \E p \in IF o = "ok" THEN EntryPaths ELSE {1} :
       LET devicePath == GetDevicePath(p, o) IN
       /\ resolveFailed' = IF o = "fail" THEN resolveFailed + 1 ELSE resolveFailed
       /\ pathBadAlloc' = IF o = "oom" THEN pathBadAlloc + 1 ELSE pathBadAlloc
       /\ devicePaths' = IF devicePath # <<>> THEN Append(devicePaths, devicePath)
                                              ELSE devicePaths
  /\ memberIndex' = memberIndex + 1
  /\ UNCHANGED <<pc, deviceInfo, openDeviceHandles, closeHandlesGuard,
                 hndManufacturerMap, attribs, handleAttributesMap,
                 handlePreparsedDataMap, devPathCapsMap, installedDeviceInfoList,
                 it, exception, result, devInfoSetLive, closeCount, preparsedLive,
                 osHandles, q, raisedAt>>

SetupDiEnumDeviceInterfaces == EnumEntry({"ok", "fail"})

\* SetupDiEnumDeviceInterfaces returns FALSE: the loop ends
EnumDone ==
  /\ pc = "enum"
  /\ memberIndex' = memberIndex + 1
  /\ pc' = "open"
  /\ it' = 1
  /\ UNCHANGED <<deviceInfo, devicePaths, openDeviceHandles, closeHandlesGuard,
                 hndManufacturerMap, attribs, handleAttributesMap,
                 handlePreparsedDataMap, devPathCapsMap, installedDeviceInfoList,
                 exception, result, devInfoSetLive, closeCount, preparsedLive,
                 resolveFailed, pathBadAlloc, osHandles, q, raisedAt>>

\* --------------------------------------------------------- open stage ---
\* handle values of files that are open: CreateFile never returns one of them
OsOpenHandles == {h \in DOMAIN osHandles : closeCount[h] = 0}

\* the device an open handle refers to
OsHandlePath(h) == osHandles[h]

\* handles.emplace(handle, devPath)
HandlesEmplace(handles, handle, devPath) == Emplace(handles, handle, devPath)

CreateFile ==
  /\ pc = "open"
  /\ it <= Len(devicePaths)
  /\ \E handle \in (Handles \ OsOpenHandles) \cup {INVALID_HANDLE_VALUE} :
       /\ osHandles' = IF handle # INVALID_HANDLE_VALUE
                       THEN (handle :> OsDeviceOfPath(devicePaths[it])) @@ osHandles
                       ELSE osHandles
       /\ openDeviceHandles' =
            IF handle # INVALID_HANDLE_VALUE
            THEN HandlesEmplace(openDeviceHandles, handle, devicePaths[it])
            ELSE openDeviceHandles
  /\ it' = it + 1
  /\ UNCHANGED <<pc, deviceInfo, memberIndex, devicePaths, closeHandlesGuard,
                 hndManufacturerMap, attribs, handleAttributesMap,
                 handlePreparsedDataMap, devPathCapsMap, installedDeviceInfoList,
                 exception, result, devInfoSetLive, closeCount, preparsedLive,
                 resolveFailed, pathBadAlloc, q, raisedAt>>

\* ------------------------------------------------- the range-for loops ---
\* the four query loops in program order, then the sanity check
StageAfter(stage) ==
  CASE stage = "manuf" -> "attr"
    [] stage = "attr"  -> "prep"
    [] stage = "prep"  -> "caps"
    [] stage = "caps"  -> "assert"

\* keys the loop of a stage iterates: the capability loop runs over the
\* preparsed-data map, the others over the open handles
StageKeys(stage, handles, dataMap) ==
  IF stage = "caps" THEN DOMAIN dataMap ELSE DOMAIN handles

\* the stage control is in once it reaches `stage`: a loop over an empty
\* collection is passed without running its body
RECURSIVE Enter(_, _, _)
Enter(stage, handles, dataMap) ==
  IF stage = "assert" THEN "assert"
  ELSE IF StageKeys(stage, handles, dataMap) = {}
       THEN Enter(StageAfter(stage), handles, dataMap)
       ELSE stage

\* end of the iteration for key hnd: next element, or on to the next loop
LoopStep(stage, hnd, dataMap) ==
  IF {k \in StageKeys(stage, openDeviceHandles, dataMap) : k > hnd} # {}
  THEN pc' = stage /\ it' = hnd
  ELSE pc' = Enter(StageAfter(stage), openDeviceHandles, dataMap) /\ it' = 0

\* the map of open handles is complete; the guard object is constructed on it
ConstructGuard ==
  /\ pc = "open"
  /\ it > Len(devicePaths)
  /\ closeHandlesGuard' = TRUE
  /\ pc' = Enter("manuf", openDeviceHandles, handlePreparsedDataMap)
  /\ it' = 0
  /\ UNCHANGED <<deviceInfo, memberIndex, devicePaths, openDeviceHandles,
                 hndManufacturerMap, attribs, handleAttributesMap,
                 handlePreparsedDataMap, devPathCapsMap, installedDeviceInfoList,
                 exception, result, devInfoSetLive, closeCount, preparsedLive,
                 resolveFailed, pathBadAlloc, osHandles, q, raisedAt>>

\* ------------------------------------------------- manufacturer stage ---
HidD_GetManufacturerString ==
  /\ pc = "manuf"
  /\ LET hnd == NextKey(openDeviceHandles, it) IN
     \E ok \in BOOLEAN :
       LET buf == NulString(MAX_USB_DEVICE_STR_LEN)
           str == IF ok THEN WriteString(buf, OsManufacturer(OsHandlePath(hnd))) ELSE buf
           endOfStr == find_first_of(str)
       IN /\ q' = [q EXCEPT ![hnd].manuf = IF ok THEN "ok" ELSE "fail"]
          /\ UNCHANGED <<installedDeviceInfoList, preparsedLive>>
          /\ IF endOfStr = npos
             THEN /\ CatchAll("out_of_range")
                  /\ UNCHANGED <<hndManufacturerMap, it>>
             ELSE /\ hndManufacturerMap' = Emplace(hndManufacturerMap, hnd, erase(str, endOfStr))
                  /\ LoopStep("manuf", hnd, handlePreparsedDataMap)
                  /\ UNCHANGED <<exception, raisedAt, result, closeCount>>
  /\ UNCHANGED <<deviceInfo, memberIndex, devicePaths, openDeviceHandles,
                 closeHandlesGuard, attribs, handleAttributesMap,
                 handlePreparsedDataMap, devPathCapsMap,
                 devInfoSetLive, resolveFailed, pathBadAlloc, osHandles>>

\* --------------------------------------------------- attributes stage ---
\* variant: the element is inserted without testing the query's result
AttributesEmplace_Unchecked(handleAttributes, hnd, ok, newAttribs) ==
  Emplace(handleAttributes, hnd, newAttribs)

\* the body of the loop once HidD_GetAttributes has answered
AttributesEmplace(handleAttributes, hnd, ok, newAttribs) ==
  IF ok THEN Emplace(handleAttributes, hnd, newAttribs) ELSE handleAttributes

HidD_GetAttributes ==
  /\ pc = "attr"
  /\ LET hnd == NextKey(openDeviceHandles, it) IN
     \E ok \in BOOLEAN :
       /\ q' = [q EXCEPT ![hnd].attr = IF ok THEN "ok" ELSE "fail"]
       /\ attribs' = IF ok THEN OsAttributes(OsHandlePath(hnd)) ELSE attribs
       /\ handleAttributesMap' = AttributesEmplace(handleAttributesMap, hnd, ok, attribs')
       /\ LoopStep("attr", hnd, handlePreparsedDataMap)
  /\ UNCHANGED <<deviceInfo, memberIndex, devicePaths, openDeviceHandles,
                 closeHandlesGuard, hndManufacturerMap,
                 handlePreparsedDataMap, devPathCapsMap, installedDeviceInfoList,
                 exception, result, devInfoSetLive, closeCount, preparsedLive,
                 resolveFailed, pathBadAlloc, osHandles, raisedAt>>

\* ----------------------------------------------- preparsed-data stage ---
HidD_GetPreparsedData ==
  /\ pc = "prep"
  /\ LET hnd == NextKey(openDeviceHandles, it) IN
     \E ok \in BOOLEAN :
       /\ q' = [q EXCEPT ![hnd].prep = IF ok THEN "ok" ELSE "fail"]
       /\ preparsedLive' = IF ok THEN preparsedLive \cup {hnd} ELSE preparsedLive
       /\ handlePreparsedDataMap' =
            IF ok THEN Emplace(handlePreparsedDataMap, hnd, OsPreparsed(OsHandlePath(hnd)))
                  ELSE handlePreparsedDataMap
       /\ LoopStep("prep", hnd, handlePreparsedDataMap')
  /\ UNCHANGED <<deviceInfo, memberIndex, devicePaths, openDeviceHandles,
                 closeHandlesGuard, hndManufacturerMap, attribs, handleAttributesMap,
                 devPathCapsMap, installedDeviceInfoList,
                 exception, result, devInfoSetLive, closeCount,
                 resolveFailed, pathBadAlloc, osHandles, raisedAt>>

\* --------------------------------------------------- capability stage ---
HidP_GetCaps ==
  /\ pc = "caps"
  /\ LET hnd == NextKey(handlePreparsedDataMap, it)
         preParsedData == handlePreparsedDataMap[hnd]
     IN \E ok \in BOOLEAN :
          /\ q' = [q EXCEPT ![hnd].caps = IF ok THEN "ok" ELSE "fail"]
          /\ devPathCapsMap' =
               IF ok THEN Emplace(devPathCapsMap, hnd, OsCaps(preParsedData.blobOf))
                     ELSE devPathCapsMap
          /\ LoopStep("caps", hnd, handlePreparsedDataMap)
  /\ UNCHANGED <<deviceInfo, memberIndex, devicePaths, openDeviceHandles,
                 closeHandlesGuard, hndManufacturerMap, attribs, handleAttributesMap,
                 handlePreparsedDataMap, installedDeviceInfoList,
                 exception, result, devInfoSetLive, closeCount, preparsedLive,
                 resolveFailed, pathBadAlloc, osHandles, raisedAt>>

\* ------------------------------------------------- sanity check point ---
\* the condition of the assert
SizesEqual ==
  /\ Cardinality(DOMAIN handleAttributesMap) = Cardinality(DOMAIN handlePreparsedDataMap)
  /\ Cardinality(DOMAIN handlePreparsedDataMap) = Cardinality(DOMAIN devPathCapsMap)

\* ---------------------------------------------------- result assembly ---
\* std::map::at succeeds for every collection the record is built from
LookupsSucceed(hnd) ==
  /\ hnd \in DOMAIN openDeviceHandles
  /\ hnd \in DOMAIN hndManufacturerMap
  /\ hnd \in DOMAIN devPathCapsMap

\* variant: the record takes the attributes left in the shared HIDD_ATTRIBUTES
DevInfo_SharedAttribs(hnd, attributes) ==
  [path         |-> openDeviceHandles[hnd],
   manufacturer |-> hndManufacturerMap[hnd],
   attributes   |-> attribs,
   caps         |-> devPathCapsMap[hnd]]

\* hidDeviceInfo const devInfo{ ... }
DevInfo(hnd, attributes) ==
  [path         |-> openDeviceHandles[hnd],
   manufacturer |-> hndManufacturerMap[hnd],
   attributes   |-> attributes,
   caps         |-> devPathCapsMap[hnd]]

\* the for loop over handleAttributesMap from the key after cur, list being
\* the records appended so far; it stops after `limit` records in all, or
\* at the first key one of the at() calls does not find
RECURSIVE AssembleLoop(_, _, _)
AssembleLoop(cur, list, limit) ==
  IF Remaining(handleAttributesMap, cur) = {} \/ Len(list) = limit
  THEN [list |-> list, thrown |-> FALSE]
  ELSE LET hnd == NextKey(handleAttributesMap, cur) IN
       IF LookupsSucceed(hnd)
       THEN AssembleLoop(hnd, Append(list, DevInfo(hnd, handleAttributesMap[hnd])), limit)
       ELSE [list |-> list, thrown |-> TRUE]

\* NDEBUG: the assert is compiled out.  The list is reserved and filled;
\* it is returned, or an at() throws std::out_of_range into catch(...)
AssembleAndReturn ==
  /\ pc = "assert"
  /\ LET run == AssembleLoop(0, <<>>, Cardinality(DOMAIN handleAttributesMap)) IN
       /\ installedDeviceInfoList' = run.list
       /\ IF run.thrown
          THEN CatchAll("out_of_range")
          ELSE /\ ScopeExit
               /\ result' = run.list
               /\ pc' = "done"
               /\ UNCHANGED <<exception, raisedAt>>
  /\ UNCHANGED <<deviceInfo, memberIndex, devicePaths, openDeviceHandles,
                 closeHandlesGuard, hndManufacturerMap, attribs, handleAttributesMap,
                 handlePreparsedDataMap, devPathCapsMap,
                 it, devInfoSetLive, resolveFailed, pathBadAlloc, osHandles, q>>

\* ------------------------------------------------- injected faults ---
\* new BYTE[requiredSize] throws inside GetDevicePath
GetDevicePathBadAlloc == EnumEntry({"oom"})

\* devPaths.emplace_back throws after the path was resolved
EmplaceBackBadAlloc ==
  /\ pc = "enum"
  /\ memberIndex < MaxDevices
  /\ memberIndex' = memberIndex + 1
  /\ UNCHANGED installedDeviceInfoList
  /\ CatchAll("bad_alloc")
  /\ UNCHANGED <<deviceInfo, devicePaths, openDeviceHandles, closeHandlesGuard,
                 hndManufacturerMap, attribs, handleAttributesMap,
                 handlePreparsedDataMap, devPathCapsMap,
                 it, devInfoSetLive, resolveFailed, pathBadAlloc, osHandles, q>>

\* handles.emplace throws after CreateFile returned a valid handle
HandlesEmplaceBadAlloc ==
  /\ pc = "open"
  /\ it <= Len(devicePaths)
  /\ \E handle \in Handles \ OsOpenHandles :
       osHandles' = (handle :> OsDeviceOfPath(devicePaths[it])) @@ osHandles
  /\ UNCHANGED installedDeviceInfoList
  /\ CatchAll("bad_alloc")
  /\ UNCHANGED <<deviceInfo, memberIndex, devicePaths, openDeviceHandles,
                 closeHandlesGuard, hndManufacturerMap, attribs, handleAttributesMap,
                 handlePreparsedDataMap, devPathCapsMap,
                 it, devInfoSetLive, resolveFailed, pathBadAlloc, q>>

\* an allocation of a query loop throws: the string buffer or a map node
StageBadAlloc ==
  /\ pc \in {"manuf", "attr", "prep", "caps"}
  /\ UNCHANGED installedDeviceInfoList
  /\ CatchAll("bad_alloc")
  /\ UNCHANGED <<deviceInfo, memberIndex, devicePaths, openDeviceHandles,
                 closeHandlesGuard, hndManufacturerMap, attribs, handleAttributesMap,
                 handlePreparsedDataMap, devPathCapsMap,
                 it, devInfoSetLive, resolveFailed, pathBadAlloc, osHandles, q>>

\* reserve() or the copy of a record throws after n records were appended
AssembleBadAlloc ==
  /\ pc = "assert"
  /\ LET full == AssembleLoop(0, <<>>, Cardinality(DOMAIN handleAttributesMap)) IN
     \E n \in 0..Len(full.list) :
       /\ n < Len(full.list) \/ (n = 0 /\ DOMAIN devPathCapsMap # {})
       /\ installedDeviceInfoList' = AssembleLoop(0, <<>>, n).list
  /\ CatchAll("bad_alloc")
  /\ UNCHANGED <<deviceInfo, memberIndex, devicePaths, openDeviceHandles,
                 closeHandlesGuard, hndManufacturerMap, attribs, handleAttributesMap,
                 handlePreparsedDataMap, devPathCapsMap,
                 it, devInfoSetLive, resolveFailed, pathBadAlloc, osHandles, q>>

\* ------------------------------------------------------ specifications ---
Next ==
  \/ SetupDiGetClassDevs
  \/ SetupDiEnumDeviceInterfaces
  \/ EnumDone
  \/ CreateFile
  \/ ConstructGuard
  \/ HidD_GetManufacturerString
  \/ HidD_GetAttributes
  \/ HidD_GetPreparsedData
  \/ HidP_GetCaps
  \/ AssembleAndReturn

\* every OS outcome, no injected fault
Spec == Init /\ [][Next]_vars

Fault ==
  \/ GetDevicePathBadAlloc
  \/ EmplaceBackBadAlloc
  \/ HandlesEmplaceBadAlloc
  \/ StageBadAlloc
  \/ AssembleBadAlloc

NextFault == Next \/ Fault

\* every OS outcome and an allocation failure at any allocation
FaultSpec == Init /\ [][NextFault]_vars

\* the function runs to its end: no step of it waits for anything
FairFaultSpec == FaultSpec /\ WF_vars(NextFault)

\* hidDeviceInfo values
ResultRecords ==
  [path : {OsDevicePath(p) : p \in Paths},
   manufacturer : {OsManufacturer(p) : p \in Paths} \cup {<<>>},
   attributes : {OsAttributes(p) : p \in Paths},
   caps : {OsCaps(p) : p \in Paths}]

\* ------------------------------------------- vocabulary of the claims ---
\* handles CreateFile returned during the call
OpenedHandles == DOMAIN osHandles

AllOk == [manuf |-> "ok", attr |-> "ok", prep |-> "ok", caps |-> "ok"]

\* attributes, preparsed data and capability parse succeeded on the handle
FullyQueryable(h) == q[h].attr = "ok" /\ q[h].prep = "ok" /\ q[h].caps = "ok"

CompleteHandles == {h \in OpenedHandles : FullyQueryable(h)}

\* the record made of what the OS reported for the device behind handle h
ExpectedRecord(h) ==
  LET p == OsHandlePath(h) IN
  [path         |-> OsDevicePath(p),
   manufacturer |-> IF q[h].manuf = "ok" THEN OsManufacturer(p) ELSE <<>>,
   attributes   |-> OsAttributes(p),
   caps         |-> OsCaps(p)]

\* the result holds exactly one record per handle of H, each the record
\* the OS data of that handle gives
ResultMatches(H) ==
  /\ Len(result) = Cardinality(H)
  /\ \A h \in H :
       Cardinality({k \in DOMAIN result : result[k] = ExpectedRecord(h)})
         = Cardinality({g \in H : ExpectedRecord(g) = ExpectedRecord(h)})

\* the call returned after a valid device-interface set was obtained
ReturnedFromPipeline == pc = "done" /\ deviceInfo = "valid"

\* the call went through every stage without an injected fault
NoInjectedFault == exception # "bad_alloc" /\ pathBadAlloc = 0

\* entries the OS enumerated (memberIndex also counts the call that ended the loop)
EntriesEnumerated == IF pc = "enum" THEN memberIndex ELSE memberIndex - 1

\* CreateFile calls that returned INVALID_HANDLE_VALUE
OpenFailed == Len(devicePaths) - Cardinality(OpenedHandles)

\* ------------------------------------------------------------- C1 ---
\* exactly one query of the whole call failed, it is a query of device D,
\* and it is one whose failure keeps D out of a collection the result is
\* built from
OnlyFailureIsPath == resolveFailed = 1 /\ OpenFailed = 0 /\ \A h \in OpenedHandles : q[h] = AllOk

OnlyFailureIsOpen == resolveFailed = 0 /\ OpenFailed = 1 /\ \A h \in OpenedHandles : q[h] = AllOk

OnlyFailureIsQueryOf(D) ==
  /\ resolveFailed = 0
  /\ OpenFailed = 0
  /\ q[D] \in {[AllOk EXCEPT !.attr = "fail"],
               [AllOk EXCEPT !.prep = "fail", !.caps = "?"],
               [AllOk EXCEPT !.caps = "fail"]}
  /\ \A h \in OpenedHandles \ {D} : q[h] = AllOk

\* C1: when the call returns, if exactly one query of a device D failed
\* (path resolution, open, attributes, preparsed data or capability parse)
\* and every other device answered every query, the returned list omits D
\* and holds one record for each of the other devices.
C1_FailureIsolated ==
  ReturnedFromPipeline =>
    /\ OnlyFailureIsPath \/ OnlyFailureIsOpen => ResultMatches(OpenedHandles)
    /\ \A D \in OpenedHandles :
         OnlyFailureIsQueryOf(D) => ResultMatches(OpenedHandles \ {D})

\* ------------------------------------------------------------- C2 ---
\* C2: every record of the returned list is the record of a distinct handle
\* whose device was resolved, opened and answered the attributes, preparsed
\* data and capability queries; a handle whose attributes query failed
\* contributes no record.
C2_OnlyCompleteDevices ==
  pc = "done" => \E H \in SUBSET CompleteHandles : ResultMatches(H)

\* a non-empty list was returned although the attributes query of a handle
\* failed while its manufacturer and capability queries succeeded
C2_Witness ==
  /\ pc = "done"
  /\ result # <<>>
  /\ \E h \in OpenedHandles :
       q[h].attr = "fail" /\ q[h].manuf = "ok" /\ q[h].prep = "ok" /\ q[h].caps = "ok"

\* ------------------------------------------------------------- C3 ---
\* C3: when the call has returned, every handle CreateFile opened has been
\* closed exactly once, whichever way the call ended.
C3_HandlesClosedOnce ==
  pc = "done" => \A h \in OpenedHandles : closeCount[h] = 1

\* ------------------------------------------------------------- C4 ---
\* C4: when the call has returned, every OS resource it acquired has been
\* released: the device-interface set, the handles, the preparsed data.
C4_ResourcesReleased ==
  pc = "done" =>
    /\ ~devInfoSetLive
    /\ preparsedLive = {}
    /\ \A h \in OpenedHandles : closeCount[h] >= 1

\* ------------------------------------------------------------- C5 ---
\* C5: whatever the OS answers and wherever an allocation fails, the call
\* ends, and it ends by returning a sequence of records to its caller.
C5_AlwaysReturns == <>[](pc = "done" /\ result \in Seq(ResultRecords))

\* the call returned after an allocation had failed in the preparsed-data loop
C5_Witness == pc = "done" /\ exception = "bad_alloc" /\ raisedAt = "prep"

\* ------------------------------------------------------------- C6 ---
\* C6 as stated: a fault raised anywhere, the allocation in GetDevicePath
\* included, makes the call return the empty list.
C6_Original ==
  pc = "done" /\ (exception # "none" \/ pathBadAlloc > 0) => result = <<>>

AttrOkHandles == {h \in OpenedHandles : q[h].attr = "ok"}

\* C6 amended: an exception thrown in a stage of GetlInstalledDevicesInfo
\* itself makes the call return the empty list, even when devices were
\* fully queryable; an allocation failure inside GetDevicePath is swallowed
\* there: the entry is skipped like an unresolved path and the call goes on
\* to return the records of the handles it collected.
C6_FaultsContained ==
  ReturnedFromPipeline =>
    /\ exception # "none" => result = <<>>
    /\ exception = "none" =>
         /\ Len(devicePaths) + resolveFailed + pathBadAlloc = EntriesEnumerated
         /\ ResultMatches(AttrOkHandles)

\* an allocation failed in the assembly loop although a device was fully
\* queryable, after an allocation had failed in GetDevicePath for an entry
C6_Witness ==
  /\ pc = "done"
  /\ exception = "bad_alloc"
  /\ raisedAt = "assert"
  /\ installedDeviceInfoList # <<>>
  /\ pathBadAlloc > 0
  /\ CompleteHandles # {}

\* ------------------------------------------------------------- C7 ---
AllDistinctAndQueryable ==
  /\ resolveFailed = 0
  /\ OpenFailed = 0
  /\ \A h \in OpenedHandles : FullyQueryable(h)
  /\ \A i, j \in DOMAIN devicePaths : i # j => devicePaths[i] # devicePaths[j]

\* C7: when every discovered device has its own path and is fully
\* queryable, the returned list has one record per device, and the record
\* with a device's path carries that device's manufacturer, attributes and
\* capabilities.
C7_OneConsistentRecordPerDevice ==
  ReturnedFromPipeline /\ AllDistinctAndQueryable =>
    /\ Len(result) = EntriesEnumerated
    /\ \A h \in OpenedHandles :
         /\ Cardinality({k \in DOMAIN result : result[k].path = OsDevicePath(OsHandlePath(h))}) = 1
         /\ \A k \in DOMAIN result :
              result[k].path = OsDevicePath(OsHandlePath(h)) => result[k] = ExpectedRecord(h)

\* two devices, the OS gave the first discovered one the larger handle value
C7_Witness ==
  /\ ReturnedFromPipeline
  /\ AllDistinctAndQueryable
  /\ EntriesEnumerated = 2
  /\ Len(result) = 2
  /\ \E g, h \in OpenedHandles :
       g > h /\ OsDevicePath(OsHandlePath(g)) = devicePaths[1]
             /\ OsDevicePath(OsHandlePath(h)) = devicePaths[2]

\* ------------------------------------------------------------- C8 ---
\* C8: a handle whose manufacturer query failed while its attributes,
\* preparsed data and capability queries succeeded has its record in the
\* returned list, with the empty string as manufacturer.
C8_ManufacturerOptional ==
  ReturnedFromPipeline =>
    \A h \in CompleteHandles :
      q[h].manuf = "fail" =>
        \E k \in DOMAIN result :
          result[k] = ExpectedRecord(h) /\ result[k].manufacturer = <<>>

\* ------------------------------------------------------------- C9 ---
\* C9: when two opens of the same device path succeeded, the open-handle
\* collection holds both handles with that path, and if both handles are
\* fully queryable the returned list holds two records with that path.
C9_NoDeduplication ==
  ReturnedFromPipeline =>
    \A a, b \in OpenedHandles :
      a # b /\ OsHandlePath(a) = OsHandlePath(b)
      => /\ {a, b} \subseteq DOMAIN openDeviceHandles
         /\ openDeviceHandles[a] = OsDevicePath(OsHandlePath(a))
         /\ openDeviceHandles[b] = OsDevicePath(OsHandlePath(b))
         /\ (FullyQueryable(a) /\ FullyQueryable(b)
               => Cardinality({k \in DOMAIN result :
                                 result[k].path = OsDevicePath(OsHandlePath(a))}) >= 2)

\* ------------------------------------------------------------ C10 ---
\* C10: at the sanity check the attributes, preparsed-data and capability
\* collections have the same number of entries.
C10_SizesEqualAtAssert == pc = "assert" => SizesEqual

====
